---------------------------- MODULE Spec2Model ----------------------------
(***************************************************************************)
(* Model of src/ai_validator.py: the evaluation pipeline validate_project  *)
(* (role check, read_criteria, gather_files, build_prompt, call_gemini,    *)
(* the JSON extraction, verify_evidence).                                   *)
(*                                                                         *)
(* Text is a sequence of one-character strings.  File contents handed to   *)
(* build_prompt are kept run-length encoded (a sequence of runs, each a    *)
(* block of characters repeated n times), so that contents of 6000 and     *)
(* more characters are handled at the program's real thresholds.           *)
(***************************************************************************)
EXTENDS Integers, Sequences, FiniteSets, TLC

VARIABLES
    \* ---- gather_files
    tree,           \* the project tree: file path -> attributes of the file
    max_files,      \* gather_files parameter
    max_size_bytes, \* gather_files parameter
    include_exts,   \* gather_files parameter, after line 29
    walk_todo,      \* os.walk: directories still to be yielded, next first
    cur_dir,        \* os.walk: the directory being listed
    cur_files,      \* file names of cur_dir the inner loop has not reached
    collected,      \* the list `collected`
    gpc,            \* position inside gather_files
    \* ---- build_prompt
    file_entries,   \* build_prompt parameter
    limited_dump,   \* the list `limited_dump`
    prompt,         \* the returned prompt
    bpc,            \* position inside build_prompt
    \* ---- validate_project
    role,           \* validate_project parameter
    pc,             \* position inside validate_project
    io_log,         \* the reads and calls made so far, in order
    raw,            \* what call_gemini returned
    reply,          \* the JSON object the model wrote (the 'R' of raw)
    parse_log,      \* the json.loads attempts made, in order
    result,         \* the parsed value, annotated in place by verify_evidence
    parsed,         \* the parsed value as json.loads returned it
    error,          \* the exception that ended the invocation
    ret             \* the returned dictionary

gvars == <<tree, max_files, max_size_bytes, include_exts, walk_todo, cur_dir,
           cur_files, collected, gpc>>
bvars == <<file_entries, limited_dump, prompt, bpc>>
pvars == <<role, pc, io_log, raw, reply, parse_log, result, parsed, error, ret>>
vars == <<gvars, bvars, pvars>>

-----------------------------------------------------------------------------
(* Bounds of the model *)

\* max_files is drawn from 0..MaxFilesCeil
MaxFilesCeil == 3
\* build_prompt is given contents of at most MaxRuns runs of one character
MaxRuns == 3
\* call_gemini returns texts of at most MaxRawLen tokens
MaxRawLen == 3

-----------------------------------------------------------------------------
(* Characters and strings *)

\* The characters used, in code point order (Python compares str by code point).
\* "BT" is the backtick U+0060 and "ZWSP" the zero width space U+200B.
AsciiOrder ==
    <<"\n", " ", "(", ")", ".", "/", "<", ">",
      "A", "B", "C", "D", "E", "F", "G", "H", "I", "J", "K", "L", "M",
      "N", "O", "P", "Q", "R", "S", "T", "U", "V", "W", "X", "Y", "Z",
      "[", "]", "_", "BT",
      "a", "b", "c", "d", "e", "f", "g", "h", "i", "j", "k", "l", "m",
      "n", "o", "p", "q", "r", "s", "t", "u", "v", "w", "x", "y", "z",
      "ZWSP">>

Ord(c) == CHOOSE i \in 1..Len(AsciiOrder) : AsciiOrder[i] = c

Uppers == <<"A", "B", "C", "D", "E", "F", "G", "H", "I", "J", "K", "L", "M",
            "N", "O", "P", "Q", "R", "S", "T", "U", "V", "W", "X", "Y", "Z">>
Lowers == <<"a", "b", "c", "d", "e", "f", "g", "h", "i", "j", "k", "l", "m",
            "n", "o", "p", "q", "r", "s", "t", "u", "v", "w", "x", "y", "z">>

\* str.lower, one character
LowerChar(c) ==
    IF \E i \in 1..26 : Uppers[i] = c
    THEN Lowers[CHOOSE i \in 1..26 : Uppers[i] = c]
    ELSE c

\* str.lower
Lower(s) == [i \in 1..Len(s) |-> LowerChar(s[i])]

\* str.startswith
StartsWith(s, p) == Len(s) >= Len(p) /\ SubSeq(s, 1, Len(p)) = p

\* s < t for str: the first differing character decides, a proper prefix is less
StrLess(s, t) ==
    \E k \in 1..(Len(t)) :
        /\ \A i \in 1..(k - 1) : i <= Len(s) /\ s[i] = t[i]
        /\ \/ k = Len(s) + 1
           \/ k <= Len(s) /\ Ord(s[k]) < Ord(t[k])

IsSpace(c) == c \in {" ", "\n"}

\* str.strip at the left
RECURSIVE LStrip(_)
LStrip(s) == IF s # <<>> /\ IsSpace(Head(s)) THEN LStrip(Tail(s)) ELSE s

\* str.strip at the right
RECURSIVE RStrip(_)
RStrip(s) ==
    IF s # <<>> /\ IsSpace(s[Len(s)]) THEN RStrip(SubSeq(s, 1, Len(s) - 1)) ELSE s

\* str.strip
Strip(s) == RStrip(LStrip(s))

\* `sub in s` for str
Contains(s, sub) ==
    \E i \in 0..(Len(s) - Len(sub)) : SubSeq(s, i + 1, i + Len(sub)) = sub

README == <<"r", "e", "a", "d", "m", "e">>

-----------------------------------------------------------------------------
(* Run-length encoded text: a sequence of runs [blk, n], the block blk      *)
(* repeated n >= 1 times.  Text as read from a file has one-character      *)
(* blocks and no two adjacent runs of the same character.                  *)

\* the text rs followed by one more run
RAppend(rs, run) ==
    IF run.n = 0 THEN rs
    ELSE IF rs # <<>> /\ rs[Len(rs)].blk = run.blk
         THEN [rs EXCEPT ![Len(rs)].n = @ + run.n]
         ELSE Append(rs, run)

\* a + b for str
RECURSIVE RCat(_, _)
RCat(a, b) == IF b = <<>> THEN a ELSE RCat(RAppend(a, Head(b)), Tail(b))

\* the run-length encoding of a character sequence
RECURSIVE Runs(_)
Runs(s) ==
    IF s = <<>> THEN <<>>
    ELSE RCat(<<[blk |-> <<Head(s)>>, n |-> 1]>>, Runs(Tail(s)))

\* len(s)
RECURSIVE RLen(_)
RLen(rs) == IF rs = <<>> THEN 0 ELSE Len(Head(rs).blk) * Head(rs).n + RLen(Tail(rs))

\* s[:k], for text with one-character blocks
RECURSIVE RTake(_, _)
RTake(rs, k) ==
    IF k <= 0 \/ rs = <<>> THEN <<>>
    ELSE IF Head(rs).n <= k
         THEN <<Head(rs)>> \o RTake(Tail(rs), k - Head(rs).n)
         ELSE <<[Head(rs) EXCEPT !.n = k]>>

\* s[k:], for text with one-character blocks
RECURSIVE RDrop(_, _)
RDrop(rs, k) ==
    IF k <= 0 \/ rs = <<>> THEN rs
    ELSE IF Head(rs).n <= k
         THEN RDrop(Tail(rs), k - Head(rs).n)
         ELSE <<[Head(rs) EXCEPT !.n = @ - k]>> \o Tail(rs)

\* s[-k:] for k > 0
RLast(rs, k) == RDrop(rs, RLen(rs) - k)

-----------------------------------------------------------------------------
(* The project tree *)

\* File and directory names
N_README_md == <<"R", "E", "A", "D", "M", "E", ".", "m", "d">>
N_a_PY == <<"a", ".", "P", "Y">>
N_x_txt == <<"x", ".", "t", "x", "t">>
N_c_py == <<"c", ".", "p", "y">>
N_docs == <<"d", "o", "c", "s">>
N_readme_old == <<"r", "e", "a", "d", "m", "e", "_", "o", "l", "d">>
N_git == <<".", "g", "i", "t">>
N_node_modules == <<"n", "o", "d", "e", "_", "m", "o", "d", "u", "l", "e", "s">>
N_venv == <<"v", "e", "n", "v">>
N_pycache == <<"_", "_", "p", "y", "c", "a", "c", "h", "e", "_", "_">>

\* The files a project tree may hold, each the names from the root down
Universe ==
    { <<N_README_md>>, <<N_a_PY>>, <<N_docs, N_README_md>>,
      <<N_readme_old, N_x_txt>>, <<N_git, N_c_py>> }

\* What each file holds
FileText(p) ==
    CASE p = <<N_README_md>> -> <<"f", "o", "o", "(", "b", "a", "r", ")">>
      [] p = <<N_a_PY>> -> <<"BT", "BT", "BT", "x">>
      [] p = <<N_docs, N_README_md>> -> <<"d", "o", "c", "s">>
      [] OTHER -> <<"x">>

\* The sizes os.path.getsize may report: at the default ceiling and one above
DefaultMaxSize == 200000
FileSizes == {DefaultMaxSize, DefaultMaxSize + 1}

Absent == [present |-> FALSE, size |-> 0, readable |-> FALSE]
FileAttrs ==
    {Absent}
    \cup {[present |-> TRUE, size |-> z, readable |-> TRUE] : z \in FileSizes}
    \cup {[present |-> TRUE, size |-> DefaultMaxSize, readable |-> FALSE]}

Trees == [Universe -> FileAttrs]

IsPrefix(d, p) == Len(p) >= Len(d) /\ SubSeq(p, 1, Len(d)) = d

\* the files os.walk lists for directory d of tree t
FilesIn(t, d) ==
    {p[Len(p)] : p \in {q \in Universe : t[q].present /\ Len(q) = Len(d) + 1 /\ IsPrefix(d, q)}}

\* the directories os.walk lists for directory d of tree t
DirsIn(t, d) ==
    {p[Len(d) + 1] : p \in {q \in Universe : t[q].present /\ Len(q) > Len(d) + 1 /\ IsPrefix(d, q)}}

\* every order a directory listing may come in
Orderings(S) ==
    {o \in [1..Cardinality(S) -> S] : \A i, j \in 1..Cardinality(S) : o[i] = o[j] => i = j}

\* os.path.relpath(os.path.join(root, fname), project_root)
RECURSIVE JoinPath(_)
JoinPath(p) ==
    IF Len(p) = 1 THEN p[1] ELSE p[1] \o <<"/">> \o JoinPath(Tail(p))

\* os.path.getsize of a returned entry's file
SizeOnDisk(t, path) == t[CHOOSE p \in Universe : JoinPath(p) = path].size

-----------------------------------------------------------------------------
(* gather_files *)

\* line 34: the subtrees os.walk is kept out of
PrunedDirs == {N_git, N_node_modules, N_venv, N_pycache}

\* line 41: os.path.splitext(fname)[1]
SplitExt(fname) ==
    LET dots == {i \in 1..Len(fname) : fname[i] = "."}
        last == CHOOSE i \in dots : \A j \in dots : j <= i
    IN  IF dots = {} THEN <<>>
        ELSE IF \A i \in 1..(last - 1) : fname[i] = "." THEN <<>>
        ELSE SubSeq(fname, last, Len(fname))

\* line 29: include_exts as a set, or None
NoExts == [all |-> TRUE, exts |-> {}]
SomeExts(S) == IF S = {} THEN NoExts ELSE [all |-> FALSE, exts |-> S]

\* line 42
ExtExcluded(inc, fname) == ~inc.all /\ Lower(SplitExt(fname)) \notin inc.exts

\* faulty variant: the count is compared with > instead of >=
CeilingReached_OffByOne(n, maxf) == n > maxf

\* lines 37 and 55
CeilingReached(n, maxf) == n >= maxf

\* line 46
TooLarge(size, maxs) == size > maxs

\* line 59: the first component of the sort key
ReadmeRank(path) == IF StartsWith(Lower(path), README) THEN 0 ELSE 1

\* line 59: key(a) < key(b)
KeyLess(a, b) ==
    \/ ReadmeRank(a.path) < ReadmeRank(b.path)
    \/ ReadmeRank(a.path) = ReadmeRank(b.path) /\ StrLess(a.path, b.path)

\* list.sort, a stable insertion of e into the sorted s
RECURSIVE InsertSorted(_, _)
InsertSorted(s, e) ==
    IF s = <<>> THEN <<e>>
    ELSE IF KeyLess(e, Head(s)) THEN <<e>> \o s
    ELSE <<Head(s)>> \o InsertSorted(Tail(s), e)

\* line 59: collected.sort(key=...)
RECURSIVE SortEntries(_)
SortEntries(s) ==
    IF s = <<>> THEN <<>>
    ELSE InsertSorted(SortEntries(SubSeq(s, 1, Len(s) - 1)), s[Len(s)])

\* lines 32-34: os.walk yields the next directory; its kept subdirectories are
\* walked next, before the directories already waiting
WalkDir ==
    /\ gpc = "walk"
    /\ walk_todo # <<>>
    /\ LET d == Head(walk_todo)
           kept == DirsIn(tree, d) \ PrunedDirs
       IN  /\ cur_dir' = d
           /\ cur_files' = FilesIn(tree, d)
           /\ \E o \in Orderings(kept) :
                 walk_todo' = [i \in 1..Len(o) |-> Append(d, o[i])] \o Tail(walk_todo)
    /\ gpc' = "files"
    /\ UNCHANGED <<tree, max_files, max_size_bytes, include_exts, collected>>

\* lines 36-54: one iteration of the loop over the directory's files
VisitFile ==
    /\ gpc = "files"
    /\ cur_files # {}
    /\ \E fname \in cur_files :
          LET p == Append(cur_dir, fname)
              rel == JoinPath(p)
          IN  IF CeilingReached(Len(collected), max_files)
              THEN \* line 38 break, and line 56 break as the count is unchanged
                   /\ gpc' = "sort"
                   /\ cur_files' = {}
                   /\ UNCHANGED collected
              ELSE /\ gpc' = "files"
                   /\ cur_files' = cur_files \ {fname}
                   /\ IF \/ ExtExcluded(include_exts, fname)
                         \/ TooLarge(tree[p].size, max_size_bytes)
                         \/ ~tree[p].readable
                      THEN UNCHANGED collected
                      ELSE collected' = Append(collected,
                               [path |-> rel, content |-> Runs(FileText(p))])
    /\ UNCHANGED <<tree, max_files, max_size_bytes, include_exts, walk_todo, cur_dir>>

\* lines 55-56 and the end of os.walk
EndDir ==
    /\ gpc = "files"
    /\ cur_files = {}
    /\ gpc' = IF CeilingReached(Len(collected), max_files) \/ walk_todo = <<>>
              THEN "sort" ELSE "walk"
    /\ UNCHANGED <<tree, max_files, max_size_bytes, include_exts, walk_todo,
                   cur_dir, cur_files, collected>>

\* lines 58-60
SortAndReturn ==
    /\ gpc = "sort"
    /\ collected' = SortEntries(collected)
    /\ gpc' = "done"
    /\ UNCHANGED <<tree, max_files, max_size_bytes, include_exts, walk_todo,
                   cur_dir, cur_files>>

-----------------------------------------------------------------------------
(* build_prompt *)

\* line 112
TruncThreshold == 6000
\* line 114
KeepChars == 3000

\* line 114: the elision marker
MarkerText ==
    <<"\n", "\n", ".", ".", ".", "<", "<", "S", "N", "I", "P", "P", "E", "D", " ", "M", "I", "D", "D", "L", "E", ">", ">", ".", ".", ".", "\n", "\n">>

\* line 116: what a triple backtick is replaced by
EscapedFence == <<"BT", "ZWSP", "BT", "ZWSP", "BT">>

\* faulty variant: the threshold itself is elided too
TooLong_AtThreshold(n) == n >= TruncThreshold

\* line 112
TooLong(n) == n > TruncThreshold

\* faulty variant: content[3000:] in place of content[-3000:]
KeepTail_FromFront(content) == RDrop(content, KeepChars)

\* line 114: content[-3000:]
KeepTail(content) == RLast(content, KeepChars)

\* line 114
Elide(content) ==
    RCat(RCat(RTake(content, KeepChars), Runs(MarkerText)), KeepTail(content))

\* line 116: str.replace scans left to right, so a run of n backticks holds
\* n \div 3 fences and keeps n % 3 backticks after them
RECURSIVE EscapeFences(_)
EscapeFences(content) ==
    IF content = <<>> THEN <<>>
    ELSE LET r == Head(content)
             first == IF r.blk = <<"BT">>
                      THEN RAppend(RAppend(<<>>, [blk |-> EscapedFence, n |-> r.n \div 3]),
                                   [blk |-> <<"BT">>, n |-> r.n % 3])
                      ELSE <<r>>
         IN  RCat(first, EscapeFences(Tail(content)))

\* lines 111-116: the content of one file as it goes into its block
RenderContent(content) ==
    EscapeFences(IF TooLong(RLen(content)) THEN Elide(content) ELSE content)

\* line 119: the replacement fields str.format finds in PROMPT_TEMPLATE, in
\* order; the first is the brace that opens the JSON example of lines 77-86
TemplateFields == <<"\n    \"role\"", "criteria_json", "role", "files_dump">>

\* lines 119-121: the keyword arguments given to str.format
FormatArgs == {"criteria_json", "role", "files_dump"}

\* lines 109-117: one iteration of the loop over file_entries
RenderFile ==
    /\ bpc = "render"
    /\ Len(limited_dump) < Len(file_entries)
    /\ LET f == file_entries[Len(limited_dump) + 1]
       IN  limited_dump' = Append(limited_dump,
               [path |-> f.path, content |-> RenderContent(f.content)])
    /\ UNCHANGED <<file_entries, prompt, bpc>>

\* lines 118-123: str.format raises KeyError for a field that is no argument
FormatPrompt ==
    /\ bpc = "render"
    /\ Len(limited_dump) = Len(file_entries)
    /\ IF \E i \in 1..Len(TemplateFields) : TemplateFields[i] \notin FormatArgs
       THEN bpc' = "KeyError" /\ UNCHANGED prompt
       ELSE bpc' = "done" /\ prompt' = [blocks |-> limited_dump]
    /\ UNCHANGED <<file_entries, limited_dump>>

GatherUnchanged == UNCHANGED <<bvars, pvars>>

GatherStep ==
    \/ WalkDir /\ GatherUnchanged
    \/ VisitFile /\ GatherUnchanged
    \/ EndDir /\ GatherUnchanged
    \/ SortAndReturn /\ GatherUnchanged

-----------------------------------------------------------------------------
(* JSON values, as json.loads returns them *)

NoValue == [t |-> "none"]

\* the exception that ended the invocation
NoError == [type |-> "none"]
Raised(type) == [type |-> type]
JNull == [t |-> "null"]
JNum == [t |-> "num"]
JStr(s) == [t |-> "str", v |-> s]
JArr(s) == [t |-> "arr", v |-> s]
JObj(f) == [t |-> "obj", v |-> f]

-----------------------------------------------------------------------------
(* The text call_gemini returns.  It is run-length encoded like file        *)
(* contents; its characters are "w" (a letter of prose), " ", "1" (a       *)
(* digit), the brackets and braces, and "R": the JSON object the model     *)
(* wrote, kept as one unit that starts with "{" and ends with "}".         *)

\* line 194: text[:2000]
ExcerptLen == 2000

RawChars == {"w", " ", "1", "[", "]", "{", "}", "R"}

RawRuns ==
    {[blk |-> <<c>>, n |-> 1] : c \in RawChars}
    \cup {[blk |-> <<"w">>, n |-> ExcerptLen + 1]}

RECURSIVE RawTextsUpTo(_)
RawTextsUpTo(k) ==
    IF k = 0 THEN {<<>>}
    ELSE LET shorter == RawTextsUpTo(k - 1)
         IN  shorter \cup {RAppend(t, r) : t \in shorter, r \in RawRuns}

RawTexts == RawTextsUpTo(MaxRawLen)

IsSpaceRun(r) == IsSpace(r.blk[1])

\* str.strip on run-length encoded text
RECURSIVE LStripRuns(_)
LStripRuns(t) == IF t # <<>> /\ IsSpaceRun(Head(t)) THEN LStripRuns(Tail(t)) ELSE t

RECURSIVE RStripRuns(_)
RStripRuns(t) ==
    IF t # <<>> /\ IsSpaceRun(t[Len(t)]) THEN RStripRuns(SubSeq(t, 1, Len(t) - 1)) ELSE t

StripRuns(t) == RStripRuns(LStripRuns(t))

\* the run holds a "{" / a "}"
HasOpen(r) == r.blk \in {<<"{">>, <<"R">>}
HasClose(r) == r.blk \in {<<"}">>, <<"R">>}

\* the tokens of a text: every bracket, brace and object is a token of its own,
\* a run of letters, of digits or of spaces is one token
RECURSIVE Tokens(_)
Tokens(t) ==
    IF t = <<>> THEN <<>>
    ELSE LET r == Head(t)
         IN  (IF r.blk[1] \in {"w", " ", "1"} THEN <<r.blk[1]>>
              ELSE [i \in 1..r.n |-> r.blk[1]]) \o Tokens(Tail(t))

\* the object "R" stands for, until the parse that yields it picks it
JReply == [t |-> "reply"]

SkipSpace(toks, i) == IF i <= Len(toks) /\ toks[i] = " " THEN i + 1 ELSE i

ParseFail == [ok |-> FALSE, next |-> 0, val |-> NoValue]

\* json.loads, one value starting at token i: a number, the object R, {},
\* [] or [value]
RECURSIVE ParseValue(_, _)
ParseValue(toks, i0) ==
    LET i == SkipSpace(toks, i0)
    IN  IF i > Len(toks) THEN ParseFail
        ELSE CASE toks[i] = "1" -> [ok |-> TRUE, next |-> i + 1, val |-> JNum]
               [] toks[i] = "R" -> [ok |-> TRUE, next |-> i + 1, val |-> JReply]
               [] toks[i] = "{" ->
                    LET j == SkipSpace(toks, i + 1)
                    IN  IF j <= Len(toks) /\ toks[j] = "}"
                        THEN [ok |-> TRUE, next |-> j + 1, val |-> JObj(<<>>)]
                        ELSE ParseFail
               [] toks[i] = "[" ->
                    LET j == SkipSpace(toks, i + 1)
                    IN  IF j <= Len(toks) /\ toks[j] = "]"
                        THEN [ok |-> TRUE, next |-> j + 1, val |-> JArr(<<>>)]
                        ELSE LET e == ParseValue(toks, j)
                                 k == SkipSpace(toks, e.next)
                             IN  IF e.ok /\ k <= Len(toks) /\ toks[k] = "]"
                                 THEN [ok |-> TRUE, next |-> k + 1, val |-> JArr(<<e.val>>)]
                                 ELSE ParseFail
               [] OTHER -> ParseFail

\* json.loads(text): one value and nothing but white space after it
Loads(text) ==
    LET toks == Tokens(text)
        v == ParseValue(toks, 1)
    IN  IF v.ok /\ SkipSpace(toks, v.next) = Len(toks) + 1
        THEN [ok |-> TRUE, val |-> v.val]
        ELSE [ok |-> FALSE, val |-> NoValue]

\* lines 185-187: text[text.index('{') : text.rindex('}') + 1]; ok is false
\* when index or rindex raises ValueError
BraceSlice(text) ==
    LET opens == {i \in 1..Len(text) : HasOpen(text[i])}
        closes == {i \in 1..Len(text) : HasClose(text[i])}
        first == CHOOSE i \in opens : \A j \in opens : i <= j
        last == CHOOSE i \in closes : \A j \in closes : j <= i
    IN  IF opens = {} \/ closes = {} THEN [ok |-> FALSE, text |-> <<>>]
        ELSE [ok |-> TRUE, text |-> SubSeq(text, first, last)]

\* faulty variant: the whole text is tried before the slice
SliceStrategy_WholeFirst(text) ==
    IF Loads(text).ok THEN Loads(text)
    ELSE IF BraceSlice(text).ok THEN Loads(BraceSlice(text).text)
    ELSE [ok |-> FALSE, val |-> NoValue]

\* lines 184-188: the first strategy
SliceStrategy(text) ==
    IF BraceSlice(text).ok THEN Loads(BraceSlice(text).text)
    ELSE [ok |-> FALSE, val |-> NoValue]

\* lines 190-192: the fallback
WholeStrategy(text) == Loads(text)

-----------------------------------------------------------------------------
(* What the model may have written as its JSON object *)

Missing == [t |-> "missing"]

\* an evidence item with the keys that are given
Evidence(path, snippet, note) ==
    LET given == [k \in {"path", "snippet", "note"} |->
                     CASE k = "path" -> path [] k = "snippet" -> snippet [] OTHER -> note]
    IN  JObj([k \in {x \in {"path", "snippet", "note"} : given[x].t # "missing"} |-> given[k]])

PathChoices ==
    {Missing, JNull, JNum, JStr(JoinPath(<<N_README_md>>)), JStr(JoinPath(<<N_a_PY>>)),
     JStr(N_docs)}
SnippetChoices ==
    {Missing, JNull, JStr(<<"f", "o", "o", "(", "b", "a", "r", ")">>), JStr(<<" ", "b", "a", "r", "\n">>),
     JStr(<<"f", "o", "o", "(", "b", "a", "z", ")">>), JStr(<<" ">>)}
NoteChoices == {Missing, JNull, JStr(<<"s", "e", "e">>), JStr(<<" ", "s", "e", "e">>)}

EvidenceItems ==
    {Evidence(p, s, n) : p \in PathChoices, s \in SnippetChoices, n \in NoteChoices}

Category(evs) == JObj([k \in {"score", "evidence"} |-> IF k = "score" THEN JNum ELSE evs])

Report(cs) ==
    JObj([k \in {"role", "criteria_scores"} |-> IF k = "role" THEN JStr(<<"s", "d", "e">>) ELSE cs])

GoodItem == Evidence(JStr(JoinPath(<<N_README_md>>)), JStr(<<" ", "b", "a", "r", "\n">>), JStr(<<"s", "e", "e">>))
BadItem == Evidence(JStr(JoinPath(<<N_README_md>>)), JStr(<<"f", "o", "o", "(", "b", "a", "z", ")">>), JStr(<<"s", "e", "e">>))

Replies ==
    {Report(JObj([c \in {"correctness"} |-> Category(JArr(<<e>>))])) : e \in EvidenceItems}
    \cup {Report(JObj([c \in {"correctness", "style"} |->
                         IF c = "style" THEN Category(JArr(<<GoodItem, BadItem>>))
                         ELSE Category(JArr(<<e>>))])) : e \in {GoodItem, BadItem}}
    \cup {JObj([k \in {"role"} |-> JStr(<<"s", "d", "e">>)]),
          Report(JNull),
          Report(JObj([c \in {"correctness"} |-> JNum])),
          Report(JObj([c \in {"correctness"} |-> JObj([k \in {"score"} |-> JNum])])),
          Report(JObj([c \in {"correctness"} |-> Category(JNull)])),
          Report(JObj([c \in {"correctness"} |-> Category(JStr(<<"s", "e", "e">>))])),
          Report(JObj([c \in {"correctness"} |-> Category(JArr(<<JNum>>))]))}

-----------------------------------------------------------------------------
(* verify_evidence *)

JBool(b) == [t |-> "bool", v |-> b]

\* dict.get(key, default)
Get(obj, key, default) == IF key \in DOMAIN obj.v THEN obj.v[key] ELSE default

\* the truth value Python gives a JSON value
Truthy(x) ==
    CASE x.t = "null" -> FALSE
      [] x.t = "str" -> Len(x.v) > 0
      [] x.t = "arr" -> Len(x.v) > 0
      [] x.t = "obj" -> DOMAIN x.v # {}
      [] x.t = "bool" -> x.v
      [] OTHER -> TRUE

\* line 165: the marker appended to the note of an unverified item
NotFoundMarker == <<" ", "[", "E", "V", "I", "D", "E", "N", "C", "E", " ", "N", "O", "T", " ", "F", "O", "U", "N", "D", "]">>

\* line 154: os.path.isfile(os.path.join(project_root, path))
IsFile(t, path) == \E p \in Universe : JoinPath(p) = path /\ t[p].present

FileOf(path) == CHOOSE p \in Universe : JoinPath(p) = path

\* faulty variant: the snippet is looked up as it is, without strip()
SnippetFound_Unstripped(snippet, text) == snippet # <<>> /\ Contains(text, snippet)

\* line 158
SnippetFound(snippet, text) == Strip(snippet) # <<>> /\ Contains(text, Strip(snippet))

\* faulty variant: the marker replaces the note
MarkNote_Replace(note) == Strip(NotFoundMarker)

\* line 165
MarkNote(note) == Strip(note \o NotFoundMarker)

\* lines 153-161: a path that is no file, a file that cannot be read and a
\* snippet that is no str (strip() raises inside the try) leave verified False
Verified(t, path, snippet) ==
    /\ Truthy(path)
    /\ IsFile(t, path.v)
    /\ t[FileOf(path.v)].readable
    /\ snippet.t = "str"
    /\ SnippetFound(snippet.v, FileText(FileOf(path.v)))

\* lines 149-166: one evidence item; err names the exception raised, if any
VerifyItem(t, ev) ==
    IF ev.t # "obj" THEN [err |-> "AttributeError", ev |-> ev]
    ELSE LET path == Get(ev, "path", JNull)
             snippet == Get(ev, "snippet", JStr(<<>>))
             note == Get(ev, "note", JStr(<<>>))
         IN  IF Truthy(path) /\ path.t # "str"
             THEN [err |-> "TypeError", ev |-> ev]
             ELSE LET verified == Verified(t, path, snippet)
                      marked == [k \in DOMAIN ev.v \cup {"verified"} |->
                                    IF k = "verified" THEN JBool(verified) ELSE ev.v[k]]
                  IN  IF verified THEN [err |-> "none", ev |-> JObj(marked)]
                      ELSE IF note.t # "str" THEN [err |-> "TypeError", ev |-> ev]
                      ELSE [err |-> "none",
                            ev |-> JObj([k \in DOMAIN marked \cup {"note"} |->
                                           IF k = "note" THEN JStr(MarkNote(note.v))
                                           ELSE marked[k]])]

FirstErr(errs) ==
    IF \E i \in 1..Len(errs) : errs[i] # "none"
    THEN errs[CHOOSE i \in 1..Len(errs) :
                 errs[i] # "none" /\ \A j \in 1..(i - 1) : errs[j] = "none"]
    ELSE "none"

\* lines 146-167: one category
VerifyCategory(t, details) ==
    IF details.t # "obj" THEN [err |-> "AttributeError", details |-> details]
    ELSE LET evs == Get(details, "evidence", JArr(<<>>))
         IN  CASE evs.t = "arr" ->
                    LET done == [i \in 1..Len(evs.v) |-> VerifyItem(t, evs.v[i])]
                        err == FirstErr([i \in 1..Len(evs.v) |-> done[i].err])
                        new_evs == JArr([i \in 1..Len(evs.v) |-> done[i].ev])
                    IN  [err |-> err,
                         details |-> JObj([k \in DOMAIN details.v \cup {"evidence"} |->
                                             IF k = "evidence" THEN new_evs
                                             ELSE details.v[k]])]
               [] evs.t \in {"str", "obj"} ->
                    \* iterating yields characters or keys, which have no get()
                    IF Truthy(evs)
                    THEN [err |-> "AttributeError", details |-> details]
                    ELSE [err |-> "none",
                          details |-> JObj([k \in DOMAIN details.v \cup {"evidence"} |->
                                              IF k = "evidence" THEN JArr(<<>>)
                                              ELSE details.v[k]])]
               [] OTHER -> [err |-> "TypeError", details |-> details]

\* lines 139-169; err names the exception raised, if any
verify_evidence(t, report) ==
    IF report.t # "obj" THEN [err |-> "AttributeError", report |-> report]
    ELSE LET criteria_scores == Get(report, "criteria_scores", JObj(<<>>))
         IN  IF criteria_scores.t # "obj"
             THEN [err |-> "AttributeError", report |-> report]
             ELSE LET cats == DOMAIN criteria_scores.v
                      done == [c \in cats |-> VerifyCategory(t, criteria_scores.v[c])]
                      bad == {c \in cats : done[c].err # "none"}
                  IN  IF bad # {}
                      THEN [err |-> done[CHOOSE c \in bad : TRUE].err, report |-> report]
                      ELSE [err |-> "none",
                            report |-> JObj([k \in DOMAIN report.v \cup {"criteria_scores"} |->
                                IF k = "criteria_scores"
                                THEN JObj([c \in cats |-> done[c].details])
                                ELSE report.v[k]])]

-----------------------------------------------------------------------------
(* validate_project *)

\* line 172
ValidRoles == {"intern", "sde", "architect"}

\* line 175
PipelineMaxFiles == 80
PipelineExts ==
    {<<".", "p", "y">>, <<".", "m", "d">>, <<".", "t", "x", "t">>, <<".", "j", "s", "o", "n">>, <<".", "y", "m", "l">>, <<".", "y", "a", "m", "l">>, <<".", "j", "s">>, <<".", "j", "a", "v", "a">>, <<".", "g", "o">>}

PipelineUnchanged == UNCHANGED <<gvars, bvars>>

\* faulty variant: the criteria file is read before the role is looked at
CheckRole_AfterCriteria ==
    /\ pc = "start"
    /\ io_log' = Append(io_log, "read_criteria")
    /\ IF role \notin ValidRoles
       THEN pc' = "failed" /\ error' = Raised("ValueError")
       ELSE pc' = "gather" /\ UNCHANGED error
    /\ UNCHANGED <<role, raw, reply, parse_log, result, parsed, ret>>
    /\ PipelineUnchanged

\* lines 172-173
CheckRole ==
    /\ pc = "start"
    /\ IF role \notin ValidRoles
       THEN pc' = "failed" /\ error' = Raised("ValueError")
       ELSE pc' = "criteria" /\ UNCHANGED error
    /\ UNCHANGED <<role, io_log, raw, reply, parse_log, result, parsed, ret>>
    /\ PipelineUnchanged

\* line 174: read_criteria returns, or raises when the file cannot be opened
\* or is no JSON
ReadCriteria ==
    /\ pc = "criteria"
    /\ io_log' = Append(io_log, "read_criteria")
    /\ \E readable \in BOOLEAN :
          IF readable
          THEN pc' = "gather" /\ UNCHANGED error
          ELSE pc' = "failed" /\ error' = Raised("CriteriaError")
    /\ UNCHANGED <<role, raw, reply, parse_log, result, parsed, ret>>
    /\ PipelineUnchanged

\* line 175: the call of gather_files
CallGatherFiles ==
    /\ pc = "gather"
    /\ io_log' = Append(io_log, "gather_files")
    /\ max_files' = PipelineMaxFiles
    /\ max_size_bytes' = DefaultMaxSize
    /\ include_exts' = SomeExts(PipelineExts)
    /\ walk_todo' = << <<>> >>
    /\ cur_dir' = <<>>
    /\ cur_files' = {}
    /\ collected' = <<>>
    /\ gpc' = "walk"
    /\ pc' = "gathering"
    /\ UNCHANGED <<tree, role, raw, reply, parse_log, result, parsed, error, ret>>
    /\ UNCHANGED bvars

\* line 177: the call of build_prompt
CallBuildPrompt ==
    /\ pc = "gathering"
    /\ gpc = "done"
    /\ file_entries' = collected
    /\ limited_dump' = <<>>
    /\ bpc' = "render"
    /\ pc' = "building"
    /\ UNCHANGED <<prompt, role, io_log, raw, reply, parse_log, result, parsed, error, ret>>
    /\ UNCHANGED gvars

\* line 177: build_prompt returns or raises; its exception ends validate_project
BuildPromptEnds ==
    /\ pc = "building"
    /\ bpc \in {"KeyError", "done"}
    /\ IF bpc = "KeyError"
       THEN pc' = "failed" /\ error' = Raised("KeyError")
       ELSE pc' = "call" /\ UNCHANGED error
    /\ UNCHANGED <<role, io_log, raw, reply, parse_log, result, parsed, ret>>
    /\ PipelineUnchanged

\* line 179: call_gemini returns the model's text, or the client raises
CallGemini ==
    /\ pc = "call"
    /\ io_log' = Append(io_log, "call_gemini")
    /\ \/ \E text \in RawTexts : raw' = text /\ pc' = "parse" /\ UNCHANGED error
       \/ pc' = "failed" /\ error' = Raised("TransportError") /\ UNCHANGED raw
    /\ UNCHANGED <<role, reply, parse_log, result, parsed, ret>>
    /\ PipelineUnchanged

\* lines 182-189: the first strategy on raw.strip()
ParseSlice ==
    /\ pc = "parse"
    /\ parse_log' = Append(parse_log, "slice")
    /\ LET got == SliceStrategy(StripRuns(raw))
       IN  IF got.ok
           THEN /\ \E obj \in (IF got.val = JReply THEN Replies ELSE {got.val}) :
                      result' = obj /\ parsed' = obj
                               /\ reply' = (IF got.val = JReply THEN obj ELSE reply)
                /\ pc' = "verify"
           ELSE pc' = "fallback" /\ UNCHANGED <<result, parsed, reply>>
    /\ UNCHANGED <<role, io_log, raw, error, ret>>
    /\ PipelineUnchanged

\* lines 190-194: the fallback on the whole of raw.strip()
ParseWhole ==
    /\ pc = "fallback"
    /\ parse_log' = Append(parse_log, "whole")
    /\ LET got == WholeStrategy(StripRuns(raw))
       IN  IF got.ok
           THEN /\ result' = got.val /\ parsed' = got.val
                /\ pc' = "verify" /\ UNCHANGED error
           ELSE /\ pc' = "failed"
                /\ error' = [type |-> "RuntimeError",
                             excerpt |-> RTake(StripRuns(raw), ExcerptLen),
                             cause |-> "JSONDecodeError"]
                /\ UNCHANGED <<result, parsed>>
    /\ UNCHANGED <<role, io_log, raw, reply, ret>>
    /\ PipelineUnchanged

\* line 196: verify_evidence annotates result in place, or raises
VerifyEvidence ==
    /\ pc = "verify"
    /\ LET got == verify_evidence(tree, result)
       IN  IF got.err = "none"
           THEN result' = got.report /\ pc' = "return" /\ UNCHANGED error
           ELSE pc' = "failed" /\ error' = Raised(got.err) /\ UNCHANGED result
    /\ UNCHANGED <<role, io_log, raw, reply, parse_log, parsed, ret>>
    /\ PipelineUnchanged

\* lines 198-202
Return ==
    /\ pc = "return"
    /\ ret' = [raw |-> raw, result |-> result, files_sent_count |-> Len(collected)]
    /\ pc' = "returned"
    /\ UNCHANGED <<role, io_log, raw, reply, parse_log, result, parsed, error>>
    /\ PipelineUnchanged

-----------------------------------------------------------------------------
(* Specifications *)

NoPrompt == [blocks |-> <<>>]

PromptIdle ==
    /\ file_entries = <<>>
    /\ limited_dump = <<>>
    /\ prompt = NoPrompt
    /\ bpc = "idle"

PipelineIdle ==
    /\ role = "intern"
    /\ pc = "idle"
    /\ io_log = <<>>
    /\ raw = <<>>
    /\ reply = NoValue
    /\ parse_log = <<>>
    /\ result = NoValue
    /\ parsed = NoValue
    /\ error = NoError
    /\ ret = NoValue

\* gather_files called on any tree with any ceilings
GatherInit ==
    /\ tree \in Trees
    /\ max_files \in 0..MaxFilesCeil
    /\ max_size_bytes \in FileSizes
    /\ include_exts \in {NoExts, SomeExts({<<".", "p", "y">>, <<".", "m", "d">>})}
    /\ walk_todo = << <<>> >>
    /\ cur_dir = <<>>
    /\ cur_files = {}
    /\ collected = <<>>
    /\ gpc = "walk"
    /\ PromptIdle
    /\ PipelineIdle

SpecGather == GatherInit /\ [][GatherStep]_vars

-----------------------------------------------------------------------------
(* build_prompt called on file entries of any content *)

\* run lengths around the two thresholds
RunLens == {1, 3, KeepChars - 1, KeepChars, TruncThreshold, TruncThreshold + 1}
ContentChars == {"a", "BT", "\n"}

\* contents of at most k runs, no two adjacent runs of the same character
RECURSIVE ContentsUpTo(_)
ContentsUpTo(k) ==
    IF k = 0 THEN {<<>>}
    ELSE LET shorter == ContentsUpTo(k - 1)
         IN  shorter \cup
             {Append(c, [blk |-> <<ch>>, n |-> n]) :
                 c \in {x \in shorter : Len(x) = k - 1},
                 ch \in ContentChars, n \in RunLens}

PromptContents ==
    {c \in ContentsUpTo(MaxRuns) :
        \A i \in 1..(Len(c) - 1) : c[i].blk # c[i + 1].blk}

PromptEntryLists ==
    {<<[path |-> N_a_PY, content |-> c]>> : c \in PromptContents}
    \cup {<<[path |-> N_README_md, content |-> c], [path |-> N_a_PY, content |-> d]>> :
             c \in ContentsUpTo(1), d \in ContentsUpTo(1)}
    \cup {<<>>}

GatherIdle ==
    /\ tree = [p \in Universe |-> Absent]
    /\ max_files = 0
    /\ max_size_bytes = 0
    /\ include_exts = NoExts
    /\ walk_todo = <<>>
    /\ cur_dir = <<>>
    /\ cur_files = {}
    /\ collected = <<>>
    /\ gpc = "idle"

PromptInit ==
    /\ file_entries \in PromptEntryLists
    /\ limited_dump = <<>>
    /\ prompt = NoPrompt
    /\ bpc = "render"
    /\ GatherIdle
    /\ PipelineIdle

PromptUnchanged == UNCHANGED <<gvars, pvars>>

PromptStep ==
    \/ RenderFile /\ PromptUnchanged
    \/ FormatPrompt /\ PromptUnchanged

SpecPrompt == PromptInit /\ [][PromptStep]_vars

-----------------------------------------------------------------------------
(* validate_project called with any role on a small project *)

RoleInputs == {"intern", "sde", "architect", "manager", "Intern", ""}

Present == [present |-> TRUE, size |-> DefaultMaxSize, readable |-> TRUE]
Unreadable == [present |-> TRUE, size |-> DefaultMaxSize, readable |-> FALSE]

\* projects of up to three files, and a .git directory
PipelineTrees ==
    {t \in Trees :
        /\ t[<<N_git, N_c_py>>] = Present
        /\ t[<<N_readme_old, N_x_txt>>] = Absent
        /\ \A p \in Universe : t[p] \in {Present, Absent}}

GatherIdleOn(t) ==
    /\ tree = t
    /\ max_files = 0
    /\ max_size_bytes = 0
    /\ include_exts = NoExts
    /\ walk_todo = <<>>
    /\ cur_dir = <<>>
    /\ cur_files = {}
    /\ collected = <<>>
    /\ gpc = "idle"

Init ==
    /\ role \in RoleInputs
    /\ pc = "start"
    /\ io_log = <<>>
    /\ raw = <<>>
    /\ reply = NoValue
    /\ parse_log = <<>>
    /\ result = NoValue
    /\ parsed = NoValue
    /\ error = NoError
    /\ ret = NoValue
    /\ \E t \in PipelineTrees : GatherIdleOn(t)
    /\ PromptIdle

Next ==
    \/ CheckRole
    \/ ReadCriteria
    \/ CallGatherFiles
    \/ GatherStep
    \/ CallBuildPrompt
    \/ PromptStep
    \/ BuildPromptEnds

Spec == Init /\ [][Next]_vars

-----------------------------------------------------------------------------
(* Lines 179-202 of validate_project: the call of the model, the parse of   *)
(* its text, verify_evidence and the return, entered as they would be had  *)
(* build_prompt returned a prompt.                                         *)

\* a project with a readable README.md, an a.PY that cannot be read and a
\* docs directory
StageTree ==
    [p \in Universe |->
        CASE p = <<N_README_md>> -> Present
          [] p = <<N_a_PY>> -> Unreadable
          [] p = <<N_docs, N_README_md>> -> Present
          [] OTHER -> Absent]

StageFiles ==
    SortEntries(<<[path |-> JoinPath(<<N_README_md>>),
                   content |-> Runs(FileText(<<N_README_md>>))],
                  [path |-> JoinPath(<<N_docs, N_README_md>>),
                   content |-> Runs(FileText(<<N_docs, N_README_md>>))]>>)

StageDump ==
    [i \in 1..Len(StageFiles) |->
        [path |-> StageFiles[i].path, content |-> RenderContent(StageFiles[i].content)]]

ReplyInit ==
    /\ role = "sde"
    /\ pc = "call"
    /\ io_log = <<"read_criteria", "gather_files">>
    /\ raw = <<>>
    /\ reply = NoValue
    /\ parse_log = <<>>
    /\ result = NoValue
    /\ parsed = NoValue
    /\ error = NoError
    /\ ret = NoValue
    /\ tree = StageTree
    /\ max_files = PipelineMaxFiles
    /\ max_size_bytes = DefaultMaxSize
    /\ include_exts = SomeExts(PipelineExts)
    /\ walk_todo = <<>>
    /\ cur_dir = <<N_docs>>
    /\ cur_files = {}
    /\ collected = StageFiles
    /\ gpc = "done"
    /\ file_entries = StageFiles
    /\ limited_dump = StageDump
    /\ prompt = [blocks |-> StageDump]
    /\ bpc = "done"

ReplyStep ==
    \/ CallGemini
    \/ ParseSlice
    \/ ParseWhole
    \/ VerifyEvidence
    \/ Return

SpecReply == ReplyInit /\ [][ReplyStep]_vars

-----------------------------------------------------------------------------
(* Claims about gather_files, checked under SpecGather *)

\* the last component of a relative path
BaseName(path) ==
    LET seps == {i \in 1..Len(path) : path[i] = "/"}
    IN  IF seps = {} THEN path
        ELSE SubSeq(path, (CHOOSE i \in seps : \A j \in seps : j <= i) + 1, Len(path))

PathStartsReadme(path) == Len(path) >= 6 /\ Lower(SubSeq(path, 1, 6)) = README
NameStartsReadme(path) == PathStartsReadme(BaseName(path))

\* the files of the tree that pass the extension filter, the size ceiling and open()
Eligible ==
    {p \in Universe :
        /\ tree[p].present /\ tree[p].readable
        /\ tree[p].size <= max_size_bytes
        /\ p[1] \notin PrunedDirs
        /\ include_exts.all \/ Lower(SplitExt(p[Len(p)])) \in include_exts.exts}

\* C1: gather_files returns at most max_files entries, and every returned entry
\* is a file of the tree whose size on disk is at most max_size_bytes.
C1_CeilingsHold ==
    gpc = "done" =>
        /\ Len(collected) <= max_files
        /\ \A i \in 1..Len(collected) :
              \E p \in Universe :
                 /\ JoinPath(p) = collected[i].path
                 /\ tree[p].present
                 /\ tree[p].size <= max_size_bytes

\* C1 witness: the count ceiling cut the selection short and an oversized file
\* of a visited directory was left out.
C1_Witness ==
    /\ gpc = "done"
    /\ max_files = 2
    /\ Len(collected) = 2
    /\ Cardinality(Eligible) > 2
    /\ tree[<<N_README_md>>].present
    /\ tree[<<N_README_md>>].size > max_size_bytes

\* C2 as stated: entries whose file name (last path component) starts with
\* "readme", case-insensitively, come before all others, and the remaining
\* entries are in ascending order of path.
C2_NameReadmeFirst ==
    gpc = "done" =>
        \A i, j \in 1..Len(collected) :
            /\ (NameStartsReadme(collected[i].path) /\ ~NameStartsReadme(collected[j].path))
                  => i < j
            /\ (~NameStartsReadme(collected[i].path) /\ ~NameStartsReadme(collected[j].path)
                  /\ i < j) => StrLess(collected[i].path, collected[j].path)

-----------------------------------------------------------------------------
(* Claims about build_prompt, checked under SpecPrompt *)

\* the number of triple backticks str.replace finds in a content
RECURSIVE Fences(_)
Fences(content) ==
    IF content = <<>> THEN 0
    ELSE (IF Head(content).blk = <<"BT">> THEN Head(content).n \div 3 ELSE 0)
         + Fences(Tail(content))

\* the content holds the elision marker (no file content holds a "<")
HasMarker(content) == \E i \in 1..Len(content) : content[i].blk = <<"<">>

\* first 3000 characters, the marker, last 3000 characters
Elided(content) ==
    RCat(RCat(RTake(content, 3000), Runs(MarkerText)), RDrop(content, RLen(content) - 3000))

\* C3 as stated: the content rendered for a file (after truncation and fence
\* escaping) is never longer than the 6000-character threshold.
C3_RenderedWithinThreshold ==
    \A i \in 1..Len(limited_dump) : RLen(limited_dump[i].content) <= 6000

\* C3 amended: the content rendered for a file is never longer than 10028
\* characters, whatever the file's length: 3000 + the 28 characters of the
\* marker + 3000 after truncation, and two more for each of the at most 2000
\* triple backticks escaped; a content without triple backticks is rendered
\* in at most 6028 characters.
C3_RenderedBound ==
    \A i \in 1..Len(limited_dump) :
        /\ RLen(limited_dump[i].content) <= 6000 + Len(MarkerText) + 2 * 2000
        /\ Fences(file_entries[i].content) = 0
              => RLen(limited_dump[i].content) <= 6000 + Len(MarkerText)

\* C3 witness: a file longer than the threshold, all backticks, rendered in
\* 10028 characters.
C3_Witness ==
    /\ Len(limited_dump) = 1
    /\ RLen(file_entries[1].content) > 6000
    /\ RLen(limited_dump[1].content) = 10028

\* C4 as stated: a content of exactly 6000 characters is rendered unmodified,
\* one of exactly 6001 characters as its first 3000 characters, the marker and
\* its last 3000 characters, and the elision is applied exactly when the
\* length exceeds 6000.
C4_BoundaryUnmodified ==
    \A i \in 1..Len(limited_dump) :
        LET c == file_entries[i].content
            r == limited_dump[i].content
        IN  /\ RLen(c) = 6000 => r = c
            /\ RLen(c) = 6001 => r = Elided(c)
            /\ HasMarker(r) <=> RLen(c) > 6000

\* C4 amended: a content of exactly 6000 characters is rendered unmodified
\* apart from the escaping of its triple backticks, one of exactly 6001
\* characters as its first 3000 characters, the marker and its last 3000
\* characters, likewise escaped (each escaped triple backtick adds two
\* characters, and a content without one is rendered exactly so); the elision
\* is applied exactly when the length exceeds 6000.
C4_BoundaryUpToEscaping ==
    \A i \in 1..Len(limited_dump) :
        LET c == file_entries[i].content
            r == limited_dump[i].content
            t == IF RLen(c) > 6000 THEN Elided(c) ELSE c
        IN  /\ Fences(t) = 0 => r = t
            /\ RLen(r) = RLen(t) + 2 * Fences(t)
            /\ HasMarker(r) <=> RLen(c) > 6000

\* C4 witness: a content of exactly 6001 characters rendered with the marker,
\* beside one of exactly 6000 characters rendered as it is.
C4_Witness ==
    /\ Len(limited_dump) = 2
    /\ RLen(file_entries[1].content) = 6000
    /\ limited_dump[1].content = file_entries[1].content
    /\ RLen(file_entries[2].content) = 6001
    /\ RLen(limited_dump[2].content) = 6028
    /\ HasMarker(limited_dump[2].content)

-----------------------------------------------------------------------------
(* Claims about the parse of the model's text and verify_evidence, checked  *)
(* under SpecReply                                                         *)

\* the parse of the model's text is over
ParseOver == parse_log # <<>> /\ pc \notin {"parse", "fallback"}

\* the text holds no "{" and no "}"
NoBraces(text) == \A i \in 1..Len(text) : text[i].blk[1] \notin {"{", "}", "R"}

\* the text from its first "{" to its last "}" is valid JSON
SliceParses(text) ==
    /\ \E i \in 1..Len(text) : text[i].blk[1] \in {"{", "R"}
    /\ \E i \in 1..Len(text) : text[i].blk[1] \in {"}", "R"}
    /\ Loads(BraceSlice(text).text).ok

\* the strategies run in their order, and the error raised when both fail
\* carries `excerpt`
StrategiesInOrder(excerpt) ==
    LET text == StripRuns(raw)
    IN  /\ parse_log \in {<<>>, <<"slice">>, <<"slice", "whole">>}
        /\ pc = "fallback" => parse_log = <<"slice">> /\ ~SliceParses(text)
        /\ ParseOver =>
              IF SliceParses(text)
              THEN /\ parse_log = <<"slice">>
                   /\ pc # "failed" \/ error.type # "RuntimeError"
                   /\ IF Loads(BraceSlice(text).text).val = JReply
                      THEN parsed = reply /\ reply \in Replies
                      ELSE parsed = Loads(BraceSlice(text).text).val
              ELSE IF Loads(text).ok
              THEN /\ parse_log = <<"slice", "whole">>
                   /\ pc # "failed" \/ error.type # "RuntimeError"
                   /\ parsed = Loads(text).val
              ELSE /\ parse_log = <<"slice", "whole">>
                   /\ pc = "failed"
                   /\ error = [type |-> "RuntimeError",
                               excerpt |-> excerpt,
                               cause |-> "JSONDecodeError"]
                   /\ parsed = NoValue

C6_NoBracesFails ==
    (NoBraces(raw) /\ ParseOver) => (pc = "failed" /\ error.type = "RuntimeError")

\* the evidence list of category c of report r, [] when there is none
EvidenceOf(r, c) ==
    IF "evidence" \in DOMAIN r.v["criteria_scores"].v[c].v
       /\ r.v["criteria_scores"].v[c].v["evidence"].t = "arr"
    THEN r.v["criteria_scores"].v[c].v["evidence"].v
    ELSE <<>>

CategoriesOf(r) ==
    IF "criteria_scores" \in DOMAIN r.v THEN DOMAIN r.v["criteria_scores"].v ELSE {}

\* the item names an existing, readable file of the project and its trimmed
\* snippet is non-empty and occurs in the file's text
SnippetIsInFile(ev) ==
    /\ "path" \in DOMAIN ev.v
    /\ ev.v["path"].t = "str"
    /\ "snippet" \in DOMAIN ev.v
    /\ ev.v["snippet"].t = "str"
    /\ \E p \in Universe :
          /\ JoinPath(p) = ev.v["path"].v
          /\ tree[p].present /\ tree[p].readable
          /\ LET s == Strip(ev.v["snippet"].v)
             IN  s # <<>> /\ \E k \in 0..(Len(FileText(p)) - Len(s)) :
                                 SubSeq(FileText(p), k + 1, k + Len(s)) = s

\* every item of report r carries the verdict on the item of `parsed` it
\* comes from
AllAnnotated(r) ==
    /\ r.t = "obj" /\ "criteria_scores" \in DOMAIN r.v
    /\ CategoriesOf(r) = CategoriesOf(parsed)
    /\ \A c \in CategoriesOf(parsed) :
          /\ Len(EvidenceOf(r, c)) = Len(EvidenceOf(parsed, c))
          /\ \A i \in 1..Len(EvidenceOf(parsed, c)) :
                /\ "verified" \in DOMAIN EvidenceOf(r, c)[i].v
                /\ EvidenceOf(r, c)[i].v["verified"]
                      = JBool(SnippetIsInFile(EvidenceOf(parsed, c)[i]))

NoteText(ev) == IF "note" \in DOMAIN ev.v THEN ev.v["note"].v ELSE <<>>

\* item n is item o but for the keys verified and note
SameButNote(o, n) ==
    /\ DOMAIN n.v \ {"note", "verified"} = DOMAIN o.v \ {"note", "verified"}
    /\ \A k \in DOMAIN o.v \ {"note", "verified"} : n.v[k] = o.v[k]

\* C8 as stated: only an unverified item's note changes, and it becomes the
\* existing note text with " [EVIDENCE NOT FOUND]" appended; the note, path
\* and snippet of a verified item stay as they are.
C8_MarkerAppended ==
    pc \in {"return", "returned"} =>
        \A c \in CategoriesOf(parsed) : \A i \in 1..Len(EvidenceOf(parsed, c)) :
            LET o == EvidenceOf(parsed, c)[i]
                n == EvidenceOf(result, c)[i]
            IN  /\ SameButNote(o, n)
                /\ IF n.v["verified"].v
                   THEN ("note" \in DOMAIN n.v <=> "note" \in DOMAIN o.v)
                        /\ ("note" \in DOMAIN o.v => n.v["note"] = o.v["note"])
                   ELSE n.v["note"] = JStr(NoteText(o) \o <<" ", "[", "E", "V", "I", "D",
                            "E", "N", "C", "E", " ", "N", "O", "T", " ", "F", "O", "U", "N",
                            "D", "]">>)

\* C8 amended: only an unverified item's note changes, and it becomes the
\* existing note text with " [EVIDENCE NOT FOUND]" appended and the white
\* space at the start of the whole then stripped: an empty or missing note
\* becomes "[EVIDENCE NOT FOUND]", and the original note text is kept as a
\* prefix but for its leading white space; the note, path and snippet of a
\* verified item stay as they are.
C8_MarkerAppendedStripped ==
    pc \in {"return", "returned"} =>
        \A c \in CategoriesOf(parsed) : \A i \in 1..Len(EvidenceOf(parsed, c)) :
            LET o == EvidenceOf(parsed, c)[i]
                n == EvidenceOf(result, c)[i]
                whole == NoteText(o) \o <<" ", "[", "E", "V", "I", "D", "E", "N", "C", "E",
                            " ", "N", "O", "T", " ", "F", "O", "U", "N", "D", "]">>
            IN  /\ SameButNote(o, n)
                /\ IF n.v["verified"].v
                   THEN ("note" \in DOMAIN n.v <=> "note" \in DOMAIN o.v)
                        /\ ("note" \in DOMAIN o.v => n.v["note"] = o.v["note"])
                   ELSE /\ n.v["note"].t = "str"
                        /\ \E k \in 0..Len(whole) :
                              /\ \A j \in 1..k : whole[j] \in {" ", "\n"}
                              /\ whole[k + 1] \notin {" ", "\n"}
                              /\ n.v["note"].v = SubSeq(whole, k + 1, Len(whole))

\* C8 witness: a returned report in which an unverified item's note " see"
\* reads "see [EVIDENCE NOT FOUND]", beside a verified item.
C8_Witness ==
    /\ pc = "returned"
    /\ \E c \in CategoriesOf(parsed) : \E i \in 1..Len(EvidenceOf(parsed, c)) :
          /\ "note" \in DOMAIN EvidenceOf(parsed, c)[i].v
          /\ EvidenceOf(parsed, c)[i].v["note"] = JStr(<<" ", "s", "e", "e">>)
          /\ EvidenceOf(result, c)[i].v["verified"] = JBool(FALSE)
          /\ Len(EvidenceOf(result, c)[i].v["note"].v) = 24

-----------------------------------------------------------------------------
(* Claims about validate_project, checked under Spec *)

\* C9: called with a role outside {intern, sde, architect}, validate_project
\* fails before any other step: no criteria read, no project file read, no
\* model call.
C9_InvalidRoleFailsFirst ==
    role \notin {"intern", "sde", "architect"} =>
        /\ io_log = <<>>
        /\ gpc = "idle" /\ collected = <<>>
        /\ bpc = "idle"
        /\ pc \in {"start", "failed"}
        /\ pc = "failed" => error.type = "ValueError"

\* C9 witness: the role "manager" refused.
C9_Witness ==
    /\ role = "manager"
    /\ pc = "failed"
    /\ error.type = "ValueError"
    /\ io_log = <<>>

\* C10: once the model's text is parsed, verification never aborts, so every
\* invocation ends with the annotated report or with a configuration failure
\* (role, criteria), a transport failure or the malformed-response error.
C10_ReportOrNamedFailure ==
    /\ pc = "failed" =>
          error.type \in {"ValueError", "CriteriaError", "TransportError", "RuntimeError"}
    /\ parsed # NoValue => pc # "failed"

=============================================================================
